---- MODULE Spec2Model ----
(***************************************************************************)
(* Model of scripts/create_test_egf_with_comparisons.py: the routine       *)
(* create_egf_with_comparisons, which reads the submissions of an EDF and  *)
(* builds an EGF holding one synthetic grade result per submission,        *)
(* pairwise comparisons whose winner agrees with the ground truth when a   *)
(* random draw falls below the accuracy target, and three comparisons      *)
(* against an external anchor.                                             *)
(*                                                                         *)
(* Units.  Probabilities, the accuracy target, the values of               *)
(* random.random() and confidences are integers in thousandths (0.7 is     *)
(* 700).  In IEEE double arithmetic 0.7 + 0.15 is the double 0.85 and      *)
(* 0.15 + 0.7 + 0.15 is the double 1.0, so the sums of the distribution    *)
(* are exact in both readings.  Python lists are 0-indexed: entry k of a   *)
(* Python list is entry k + 1 of the sequence that models it.              *)
(*                                                                         *)
(* The random module.  random.seed(s) puts the process-wide generator in   *)
(* a state fixed by s, and each later draw is a function of s and of the   *)
(* draws made since.  The generator is modelled by the variable tape:      *)
(* tape[s] is the part of the output stream of seed s that has been        *)
(* revealed so far.  A draw at a position already revealed returns the     *)
(* revealed value; a draw at a new position returns any value the          *)
(* primitive can return, and reveals it.                                   *)
(***************************************************************************)
EXTENDS Integers, Sequences, FiniteSets, TLC

VARIABLES
    submissions,       \* list(edf.submissions): sequence of [id, grade]
    accuracy,          \* parameter accuracy, in thousandths
    seed,              \* parameter seed
    clock,             \* the wall clock, in milliseconds
    runs,              \* number of calls of create_egf_with_comparisons started
    pc,                \* position in create_egf_with_comparisons
    timestamp,         \* local timestamp
    rng,               \* state of the random module: [seed, pos]
    tape,              \* revealed output stream of the generator, per seed
    draws,             \* calls made to the random module in this run, in order
    i,                 \* loop variable i of the current loop
    j,                 \* loop variable j of the inner comparison loop
    comparison_count,  \* local comparison_count
    locals,            \* locals of the latest loop body
    egf,               \* the EGF object: [calls, grades, comparisons, log]
    saved              \* artifacts written by egf.save, in order

vars == <<submissions, accuracy, seed, clock, runs, pc, timestamp, rng, tape,
          draws, i, j, comparison_count, locals, egf, saved>>

----------------------------------------------------------------------------
(* Bounds of the model *)

MaxN == 3
MaxRuns == 2
MaxGradeN == 2
MaxPairN == 4

(* Program constants *)

AnchorCount == 3
MinGrade == 0
MaxGrade == 10
DistLen == 11
PeakMass == 700
SideMass == 150
ConfLow == 600
ConfHigh == 950
AnchorConfidence == 850
GradeStepMs == 1000
ResultOffsetMs == 500
CompareBaseMs == 100000
AnchorBaseMs == 200000
DefaultSeed == 42
SecondSeed == 123

AnchorId == "external_anchor_exemplar"

(* Inputs of the model *)

\* ground-truth grades of the submissions an EDF is cut from
Roster == <<7, 3, 5, 5, 2, 8>>
RosterIds == <<"sub_1", "sub_2", "sub_3", "sub_4", "sub_5", "sub_6">>
Offsets == {0, 1}
\* accuracy targets, in thousandths: inside [0, 1] and outside
Accuracies == {-500, 0, 800, 1000, 1500}
\* the wall clock read by datetime.now() in the first call, and by how much a
\* later reading can exceed an earlier one (0: within the same millisecond)
StartTimes == {5000}
ClockGaps == {0, 1, 2000}
\* the arguments (accuracy, seed) of the calls in main(), lines 185-202, in
\* the order in which main() makes them
MainCalls == <<<<800, DefaultSeed>>, <<650, SecondSeed>>>>
DefaultAccuracy == 800
\* identifiers of an EDF one of whose submissions bears the anchor's name
ClashingIds == <<"sub_1", "sub_2", AnchorId, "sub_4", "sub_5", "sub_6">>

Min(a, b) == IF a < b THEN a ELSE b
Max(a, b) == IF a > b THEN a ELSE b

----------------------------------------------------------------------------
(* Identifiers: f"{prefix}{k:03d}" is the prefix followed by the decimal  *)
(* digits of k, padded with zeros on the left to a width of at least 3.    *)

RECURSIVE Digits(_)
Digits(k) == IF k < 10 THEN <<k>> ELSE Append(Digits(k \div 10), k % 10)

RECURSIVE PadLeft(_, _)
PadLeft(ds, w) == IF Len(ds) >= w THEN ds ELSE PadLeft(<<0>> \o ds, w)

Fmt03(prefix, k) == <<prefix>> \o PadLeft(Digits(k), 3)

GradeCallId(k) == Fmt03("grade_call_", k)        \* f"grade_call_{i:03d}"
CompCallId(k) == Fmt03("comp_call_", k)          \* f"comp_call_{comparison_count:03d}"
CompId(k) == Fmt03("comp_", k)                   \* f"comp_{comparison_count:03d}"
\* the anchor calls numbered like the pairwise ones
AnchorCallId_SharedPrefix(k) == Fmt03("comp_call_", k)
AnchorCallId(k) == Fmt03("ext_comp_call_", k)    \* f"ext_comp_call_{i:03d}"
AnchorCompId(k) == Fmt03("ext_comp_", k)         \* f"ext_comp_{i:03d}"

----------------------------------------------------------------------------
(* The random module *)

Seeds == {DefaultSeed, SecondSeed}

\* Representatives of the values random.random() can return, in thousandths
\* (a subset of [0, 1)): two for the accuracy draw, one below every positive
\* accuracy target of the model and one equal to the default target, and one for the draw inside uniform(),
\* whose value decides nothing but the confidence field.
RandomValues == {0, 800}
UniformValues == {500}

\* what each primitive can draw from the generator
Outcomes(kind) ==
    CASE kind = "randint" -> 0..2          \* _randbelow(3)
      [] kind = "choice"  -> 0..1          \* _randbelow(2)
      [] kind = "random"  -> RandomValues
      [] kind = "uniform" -> UniformValues  \* uniform() calls random()

\* the value drawn at the k-th position after the current one
TapeValues(kind, k) ==
    IF rng.pos + k <= Len(tape[rng.seed])
    THEN {tape[rng.seed][rng.pos + k]}
    ELSE Outcomes(kind)

\* the sequences of values that the draws kinds[1], ..., kinds[k] can return
RECURSIVE DrawsUpTo(_, _)
DrawsUpTo(kinds, k) ==
    IF k = 0 THEN {<<>>}
    ELSE {Append(vs, v) : vs \in DrawsUpTo(kinds, k - 1),
                          v \in TapeValues(kinds[k], k)}

PossibleDraws(kinds) == DrawsUpTo(kinds, Len(kinds))

\* the tape once the values vs have been drawn
Reveal(vs) ==
    LET old == tape[rng.seed]
        new == [k \in 1..Max(Len(old), rng.pos + Len(vs)) |->
                   IF k <= Len(old) THEN old[k] ELSE vs[k - rng.pos]]
    IN  [tape EXCEPT ![rng.seed] = new]

RandInt(lo, raw) == lo + raw                       \* randint(lo, hi)
Choice(seq, raw) == seq[raw + 1]                   \* choice(seq)
Uniform(lo, hi, raw) == lo + ((hi - lo) * raw) \div 1000   \* uniform(lo, hi)

----------------------------------------------------------------------------
(* The pure steps of the synthesis *)

\* the lower end clamped at 1 instead of 0
PredictedGrade_FloorOne(grade, noise) == Max(MinGrade + 1, Min(MaxGrade, grade + noise))

\* predicted_grade = max(0, min(10, sub.grade + noise))
PredictedGrade(grade, noise) == Max(MinGrade, Min(MaxGrade, grade + noise))

\* the mass of a neighbour outside 0..10 dropped instead of added to the peak
BuildDist_DropMass(p) ==
    LET zero == [k \in 1..DistLen |-> 0]
        peak == [zero EXCEPT ![p + 1] = PeakMass]
        left == IF p > 0 THEN [peak EXCEPT ![p] = SideMass] ELSE peak
    IN  IF p < 10 THEN [left EXCEPT ![p + 2] = SideMass] ELSE left

\* dist = [0.0] * 11 and the assignments that follow it
BuildDist(p) ==
    LET zero == [k \in 1..DistLen |-> 0]
        peak == [zero EXCEPT ![p + 1] = PeakMass]
        left == IF p > 0
                THEN [peak EXCEPT ![p] = SideMass]
                ELSE [peak EXCEPT ![p + 1] = @ + SideMass]
    IN  IF p < 10
        THEN [left EXCEPT ![p + 2] = SideMass]
        ELSE [left EXCEPT ![p + 1] = @ + SideMass]

\* each submission compared with every later one: range(i + 1, n)
InnerRange_AllLater(ii, n) == (ii + 1)..(n - 1)

\* range(i + 1, min(i + 3, len(submissions)))
InnerRange(ii, n) == (ii + 1)..(Min(ii + 3, n) - 1)

\* the first iteration of the inner loop at or after outer index ii, or <<n, n>>
RECURSIVE FirstPairFrom(_, _)
FirstPairFrom(ii, n) ==
    IF ii >= n THEN <<n, n>>
    ELSE IF InnerRange(ii, n) # {} THEN <<ii, ii + 1>>
    ELSE FirstPairFrom(ii + 1, n)

\* the iteration of the nested loops that follows iteration (ii, jj)
NextPair(ii, jj, n) ==
    IF jj + 1 \in InnerRange(ii, n) THEN <<ii, jj + 1>>
    ELSE FirstPairFrom(ii + 1, n)

\* random.choice called for every pair, tied or not
DrawKinds_AlwaysChoice(ga, gb) == <<"choice", "random", "uniform">>

\* the calls to the random module made by one comparison, in program order
DrawKinds(ga, gb) ==
    IF ga - gb = 0 THEN <<"choice", "random", "uniform">>
    ELSE <<"random", "uniform">>

\* correct_winner, where raw is the draw of random.choice on a tie
CorrectWinner(ga, gb, raw) ==
    LET gt_diff == ga - gb
    IN  IF gt_diff > 0 THEN "a"
        ELSE IF gt_diff < 0 THEN "b"
        ELSE Choice(<<"a", "b">>, raw)

\* the accuracy draw compared with <= instead of <
ObservedWinner_Inclusive(correct_winner, r, acc) ==
    IF r <= acc THEN correct_winner
    ELSE IF correct_winner = "a" THEN "b" ELSE "a"

\* winner, where r is the value of random.random()
ObservedWinner(correct_winner, r, acc) ==
    IF r < acc THEN correct_winner
    ELSE IF correct_winner = "a" THEN "b" ELSE "a"

----------------------------------------------------------------------------
(* The EGF object *)

\* EGF.reference_edf(str(edf_path), description)
NewEGF == [calls |-> <<>>, grades |-> <<>>, comparisons |-> <<>>, log |-> <<>>]

\* egf.add_llm_call(call_id=..., timestamp=..., output_content=...)
AddLLMCall(e, call) ==
    [e EXCEPT !.calls = Append(@, call),
              !.log = Append(@, [kind |-> "call", id |-> call.call_id,
                                 call_ids |-> <<>>])]

\* egf.add_grade_result(...)
AddGradeResult(e, result) ==
    [e EXCEPT !.grades = Append(@, result),
              !.log = Append(@, [kind |-> "grade", id |-> result.submission_id,
                                 call_ids |-> result.call_ids])]

\* egf.add_comparison(...)
AddComparison(e, comp) ==
    [e EXCEPT !.comparisons = Append(@, comp),
              !.log = Append(@, [kind |-> "comparison", id |-> comp.comparison_id,
                                 call_ids |-> comp.call_ids])]

NoLocals == [stage |-> "none"]

\* where control goes when the grade loop is over: the first pair, or the
\* anchor loop when the nested loops have no iteration
AfterGrades(n) ==
    LET p == FirstPairFrom(0, n)
    IN  IF p[1] < n THEN [pc |-> "compare", i |-> p[1], j |-> p[2]]
        ELSE [pc |-> "anchors", i |-> 0, j |-> 0]

\* where control goes after the comparison of pair (ii, jj)
AfterPair(ii, jj, n) ==
    LET p == NextPair(ii, jj, n)
    IN  IF p[1] < n THEN [pc |-> "compare", i |-> p[1], j |-> p[2]]
        ELSE [pc |-> "anchors", i |-> 0, j |-> 0]

----------------------------------------------------------------------------
(* Actions *)

\* lines 22-30: load the submissions, create the EGF, read the clock, seed
StartRun ==
    /\ pc = "start"
    /\ egf' = NewEGF
    /\ timestamp' = clock
    /\ rng' = [seed |-> seed, pos |-> 0]
    /\ draws' = <<"seed">>
    /\ comparison_count' = 0
    /\ locals' = NoLocals
    /\ LET to == IF Len(submissions) > 0
                 THEN [pc |-> "grades", i |-> 0, j |-> 0]
                 ELSE AfterGrades(0)
       IN  pc' = to.pc /\ i' = to.i /\ j' = to.j
    /\ UNCHANGED <<submissions, accuracy, seed, clock, runs, tape, saved>>

\* lines 33-75: one iteration of the grade loop
GradeStep ==
    /\ pc = "grades"
    /\ i < Len(submissions)
    /\ \E vs \in PossibleDraws(<<"randint">>) :
         LET sub == submissions[i + 1]
             call_id == GradeCallId(i)
             call == [call_id |-> call_id,
                      timestamp |-> timestamp + i * GradeStepMs,
                      output |-> <<"Grade", sub.grade>>]
             noise == RandInt(-1, vs[1])
             predicted_grade == PredictedGrade(sub.grade, noise)
             result == [submission_id |-> sub.id,
                        grade |-> predicted_grade,
                        grade_distribution |-> BuildDist(predicted_grade),
                        call_ids |-> <<call_id>>,
                        graded_at |-> timestamp + i * GradeStepMs + ResultOffsetMs]
             to == IF i + 1 < Len(submissions)
                   THEN [pc |-> "grades", i |-> i + 1, j |-> 0]
                   ELSE AfterGrades(Len(submissions))
         IN  /\ egf' = AddGradeResult(AddLLMCall(egf, call), result)
             /\ tape' = Reveal(vs)
             /\ rng' = [rng EXCEPT !.pos = @ + 1]
             /\ draws' = Append(draws, "randint")
             /\ locals' = [stage |-> "grade", grade |-> sub.grade, noise |-> noise,
                           predicted_grade |-> predicted_grade]
             /\ pc' = to.pc /\ i' = to.i /\ j' = to.j
    /\ UNCHANGED <<submissions, accuracy, seed, clock, runs, timestamp,
                   comparison_count, saved>>

\* lines 79-134: one iteration of the nested comparison loops
CompareStep ==
    /\ pc = "compare"
    /\ i < Len(submissions)
    /\ j \in InnerRange(i, Len(submissions))
    /\ LET sub_a == submissions[i + 1]
           sub_b == submissions[j + 1]
           kinds == DrawKinds(sub_a.grade, sub_b.grade)
       IN  \E vs \in PossibleDraws(kinds) :
             LET comp_call_id == CompCallId(comparison_count)
                 comp_id == CompId(comparison_count)
                 correct_winner == CorrectWinner(sub_a.grade, sub_b.grade, vs[1])
                 r == vs[Len(kinds) - 1]
                 winner == ObservedWinner(correct_winner, r, accuracy)
                 call == [call_id |-> comp_call_id,
                          timestamp |-> timestamp + CompareBaseMs
                                          + comparison_count * GradeStepMs,
                          output |-> <<"Winner", winner>>]
                 comp == [comparison_id |-> comp_id,
                          submission_a |-> sub_a.id,
                          submission_b |-> sub_b.id,
                          winner |-> winner,
                          call_ids |-> <<comp_call_id>>,
                          compared_at |-> timestamp + CompareBaseMs
                                            + comparison_count * GradeStepMs
                                            + ResultOffsetMs,
                          confidence |-> Uniform(ConfLow, ConfHigh, vs[Len(kinds)]),
                          justification |-> <<"Submission", winner>>]
                 to == AfterPair(i, j, Len(submissions))
             IN  /\ egf' = AddComparison(AddLLMCall(egf, call), comp)
                 /\ tape' = Reveal(vs)
                 /\ rng' = [rng EXCEPT !.pos = @ + Len(kinds)]
                 /\ draws' = draws \o kinds
                 /\ locals' = [stage |-> "compare", i |-> i, j |-> j,
                               gt_diff |-> sub_a.grade - sub_b.grade,
                               correct_winner |-> correct_winner,
                               r |-> r, winner |-> winner]
                 /\ comparison_count' = comparison_count + 1
                 /\ pc' = to.pc /\ i' = to.i /\ j' = to.j
    /\ UNCHANGED <<submissions, accuracy, seed, clock, runs, timestamp, saved>>

\* lines 137-170: one iteration of the anchor loop
AnchorStep ==
    /\ pc = "anchors"
    /\ i < AnchorCount
    /\ i < Len(submissions)
    /\ LET sub == submissions[i + 1]
           comp_call_id == AnchorCallId(i)
           comp_id == AnchorCompId(i)
           call == [call_id |-> comp_call_id,
                    timestamp |-> timestamp + AnchorBaseMs + i * GradeStepMs,
                    output |-> <<"Winner", "a">>]
           comp == [comparison_id |-> comp_id,
                    submission_a |-> sub.id,
                    submission_b |-> AnchorId,
                    winner |-> "a",
                    call_ids |-> <<comp_call_id>>,
                    compared_at |-> timestamp + AnchorBaseMs + i * GradeStepMs
                                      + ResultOffsetMs,
                    confidence |-> AnchorConfidence,
                    justification |-> <<"Submission", "anchor">>]
       IN  /\ egf' = AddComparison(AddLLMCall(egf, call), comp)
           /\ locals' = [stage |-> "anchor", i |-> i]
           /\ i' = i + 1
           /\ pc' = IF i + 1 < AnchorCount THEN "anchors" ELSE "save"
    /\ UNCHANGED <<submissions, accuracy, seed, clock, runs, timestamp, rng,
                   tape, draws, j, comparison_count, saved>>

\* a missing submission skipped instead of raising
AnchorIndexError_Skip ==
    /\ pc = "anchors"
    /\ i < AnchorCount
    /\ i >= Len(submissions)
    /\ pc' = "save"
    /\ UNCHANGED <<submissions, accuracy, seed, clock, runs, timestamp, rng,
                   tape, draws, i, j, comparison_count, locals, egf, saved>>

\* line 138: submissions[i] raises IndexError when i >= len(submissions)
AnchorIndexError ==
    /\ pc = "anchors"
    /\ i < AnchorCount
    /\ i >= Len(submissions)
    /\ pc' = "failed"
    /\ UNCHANGED <<submissions, accuracy, seed, clock, runs, timestamp, rng,
                   tape, draws, i, j, comparison_count, locals, egf, saved>>

\* line 173: egf.save(str(output_path))
Save ==
    /\ pc = "save"
    /\ saved' = Append(saved, egf)
    /\ pc' = "done"
    /\ UNCHANGED <<submissions, accuracy, seed, clock, runs, timestamp, rng,
                   tape, draws, i, j, comparison_count, locals, egf>>

\* The two runs that the determinism property compares: once a call has
\* returned, the caller calls create_egf_with_comparisons again with the same
\* EDF, accuracy and seed, in the same process, while the wall clock moves on
\* or not.  No caller in the script does this (the second call of main() has
\* another accuracy and another seed); the action stands for the caller of
\* the property.
RepeatCall ==
    /\ pc = "done"
    /\ runs < MaxRuns
    /\ runs' = runs + 1
    /\ \E d \in ClockGaps : clock' = clock + d
    /\ pc' = "start"
    /\ UNCHANGED <<submissions, accuracy, seed, timestamp, rng, tape, draws,
                   i, j, comparison_count, locals, egf, saved>>

\* lines 193-202: the first call of main() has returned, and main() calls
\* create_egf_with_comparisons again, in the same process, with the next
\* arguments; an exception in the first call ends main() instead
MainNextCall ==
    /\ pc = "done"
    /\ runs < Len(MainCalls)
    /\ accuracy = MainCalls[runs][1]
    /\ seed = MainCalls[runs][2]
    /\ runs' = runs + 1
    /\ accuracy' = MainCalls[runs + 1][1]
    /\ seed' = MainCalls[runs + 1][2]
    /\ \E d \in ClockGaps : clock' = clock + d
    /\ pc' = "start"
    /\ UNCHANGED <<submissions, timestamp, rng, tape, draws, i, j,
                   comparison_count, locals, egf, saved>>

----------------------------------------------------------------------------
(* Initial states *)

\* the submissions of the EDF at positions offset + 1 .. offset + n of Roster
Window(ids, offset, n) ==
    [k \in 1..n |-> [id |-> ids[offset + k], grade |-> Roster[offset + k]]]

InitCommon ==
    /\ runs = 1
    /\ pc = "start"
    /\ timestamp = 0
    /\ rng = [seed |-> 0, pos |-> 0]
    /\ tape = [s \in Seeds |-> <<>>]
    /\ draws = <<>>
    /\ i = 0
    /\ j = 0
    /\ comparison_count = 0
    /\ locals = NoLocals
    /\ egf = NewEGF
    /\ saved = <<>>

\* One call with the default accuracy and seed (lines 16-17)
Init ==
    /\ \E n \in 0..MaxN, offset \in Offsets :
         submissions = Window(RosterIds, offset, n)
    /\ accuracy = DefaultAccuracy
    /\ seed = DefaultSeed
    /\ clock \in StartTimes
    /\ InitCommon

Next ==
    \/ StartRun
    \/ GradeStep
    \/ CompareStep
    \/ AnchorStep
    \/ AnchorIndexError
    \/ Save

Spec == Init /\ [][Next]_vars

\* One call over the first n submissions of the roster, n up to MaxPairN:
\* long enough for a pair more than two positions apart to exist
InitPairs ==
    /\ \E n \in 0..MaxPairN : submissions = Window(RosterIds, 0, n)
    /\ accuracy = DefaultAccuracy
    /\ seed = DefaultSeed
    /\ clock \in StartTimes
    /\ InitCommon

SpecPairs == InitPairs /\ [][Next]_vars

\* One call with any of the accuracy targets
InitAccuracy ==
    /\ \E n \in 0..MaxN, offset \in Offsets :
         submissions = Window(RosterIds, offset, n)
    /\ accuracy \in Accuracies
    /\ seed = DefaultSeed
    /\ clock \in StartTimes
    /\ InitCommon

SpecAccuracy == InitAccuracy /\ [][Next]_vars

\* The grade loop alone, over every ground-truth grade
InitGrades ==
    /\ \E n \in 1..MaxGradeN :
         \E gs \in [1..n -> MinGrade..MaxGrade] :
            submissions = [k \in 1..n |-> [id |-> RosterIds[k], grade |-> gs[k]]]
    /\ accuracy = DefaultAccuracy
    /\ seed = DefaultSeed
    /\ clock \in StartTimes
    /\ InitCommon

NextGrades ==
    \/ StartRun
    \/ GradeStep

SpecGrades == InitGrades /\ [][NextGrades]_vars

\* A call with the arguments of either call of main(), then repeated
InitRerun ==
    /\ \E n \in 0..MaxN, offset \in Offsets :
         submissions = Window(RosterIds, offset, n)
    /\ \E c \in DOMAIN MainCalls :
         accuracy = MainCalls[c][1] /\ seed = MainCalls[c][2]
    /\ clock \in StartTimes
    /\ InitCommon

NextRerun ==
    \/ Next
    \/ RepeatCall

SpecRerun == InitRerun /\ [][NextRerun]_vars

\* main(): the first call with its arguments, then the second call with its
\* own, in one process
InitMain ==
    /\ \E n \in 0..MaxN : submissions = Window(RosterIds, 0, n)
    /\ accuracy = MainCalls[1][1]
    /\ seed = MainCalls[1][2]
    /\ clock \in StartTimes
    /\ InitCommon

NextMain ==
    \/ Next
    \/ MainNextCall

SpecMain == InitMain /\ [][NextMain]_vars

\* EDFs whose identifiers may include the anchor's
InitAnchor ==
    /\ \E n \in 0..MaxN, offset \in Offsets, ids \in {RosterIds, ClashingIds} :
         submissions = Window(ids, offset, n)
    /\ accuracy = DefaultAccuracy
    /\ seed = DefaultSeed
    /\ clock \in StartTimes
    /\ InitCommon

SpecAnchor == InitAnchor /\ [][Next]_vars

----------------------------------------------------------------------------
(* Vocabulary of the properties *)

N == Len(submissions)
SourceIds == {submissions[k].id : k \in 1..N}

RECURSIVE SumSeq(_)
SumSeq(q) == IF q = <<>> THEN 0 ELSE q[1] + SumSeq(Tail(q))

IsPrefix(a, b) == Len(a) <= Len(b) /\ \A k \in 1..Len(a) : a[k] = b[k]

IsAnchorComparison(c) == c.comparison_id[1] = "ext_comp_"
PairwiseOf(e) == SelectSeq(e.comparisons, LAMBDA c : ~IsAnchorComparison(c))
AnchorsOf(e) == SelectSeq(e.comparisons, IsAnchorComparison)

\* the index pairs (a, b), 0-based, with a < b and b one of a + 1, a + 2
ClaimPairSet(n) ==
    {q \in (0..(n - 1)) \X (0..(n - 1)) : q[1] < q[2] /\ q[2] \in {q[1] + 1, q[1] + 2}}

\* pair o comes before pair q in increasing (a, b) order
PairBefore(o, q) == o[1] < q[1] \/ (o[1] = q[1] /\ o[2] < q[2])

\* the pairs of S in increasing (a, b) order
RECURSIVE SortedPairs(_)
SortedPairs(S) ==
    IF S = {} THEN <<>>
    ELSE LET first == CHOOSE q \in S : \A o \in S \ {q} : PairBefore(q, o)
         IN  <<first>> \o SortedPairs(S \ {first})

ClaimPairSeq(n) == SortedPairs(ClaimPairSet(n))

IsTie(q) == submissions[q[1] + 1].grade = submissions[q[2] + 1].grade

\* the draws of the pairs at positions k, k + 1, ... of ClaimPairSeq
RECURSIVE ClaimPairDraws(_, _)
ClaimPairDraws(pairs, k) ==
    IF k > Len(pairs) THEN <<>>
    ELSE (IF IsTie(pairs[k]) THEN <<"choice">> ELSE <<>>)
            \o <<"random", "uniform">> \o ClaimPairDraws(pairs, k + 1)

ClaimDraws ==
    <<"seed">> \o [k \in 1..N |-> "randint"] \o ClaimPairDraws(ClaimPairSeq(N), 1)

PairwiseOver == pc \in {"anchors", "save", "done", "failed"}

----------------------------------------------------------------------------
(* C1: every distribution built for a grade result has 11 entries indexed  *)
(* 0..10, none negative, no mass outside p-1, p, p+1, a total of exactly   *)
(* 1.0, and its entry at the predicted grade p is at least 0.7 and is the  *)
(* strict maximum.                                                         *)

DistOK(res) ==
    LET d == res.grade_distribution
        p == res.grade
    IN  /\ DOMAIN d = 1..11
        /\ \A k \in 1..11 : d[k] >= 0
        /\ \A k \in 1..11 : d[k] # 0 => (k - 1) \in {p - 1, p, p + 1}
        /\ SumSeq(d) = 1000
        /\ d[p + 1] >= 700
        /\ \A k \in 1..11 : k # p + 1 => d[k] < d[p + 1]

C1_DistributionWellFormed ==
    \A k \in 1..Len(egf.grades) : DistOK(egf.grades[k])

\* both boundary grades have been predicted in one run
C1_Witness ==
    /\ Len(egf.grades) = 2
    /\ egf.grades[1].grade = 0
    /\ egf.grades[2].grade = 10

(* C8: the predicted grade is the ground-truth grade plus the noise,       *)
(* clamped to 0..10; one grade result is emitted per submission, in source *)
(* order, with an integer grade in 0..10 at distance at most 1 from the    *)
(* ground truth, equal to it when the noise would leave the range.         *)

C8_PredictedGradeClamped ==
    /\ Len(egf.grades) = (IF pc = "grades" THEN i
                          ELSE IF pc = "start" THEN 0 ELSE N)
    /\ \A k \in 1..Len(egf.grades) :
         LET g == submissions[k].grade
             d == tape[seed][k] - 1
             p == egf.grades[k].grade
         IN  /\ egf.grades[k].submission_id = submissions[k].id
             /\ d \in {-1, 0, 1}
             /\ p \in 0..10
             /\ (g + d < 0 => p = 0)
             /\ (g + d > 10 => p = 10)
             /\ (g + d \in 0..10 => p = g + d)
             /\ p - g \in {-1, 0, 1}
             /\ ((g = 0 /\ d = -1) \/ (g = 10 /\ d = 1) => p = g)

\* the noise left the range at both ends: 0 - 1 and 10 + 1
C8_Witness ==
    /\ Len(egf.grades) = 2
    /\ submissions[1].grade = 0 /\ tape[seed][1] = 0 /\ egf.grades[1].grade = 0
    /\ submissions[2].grade = 10 /\ tape[seed][2] = 2 /\ egf.grades[2].grade = 10

(* C4: the pairwise comparisons are one per index pair (a, b) with        *)
(* 0 <= a < b < n and b in {a+1, a+2}, in increasing (a, b) order, between *)
(* submissions[a] and submissions[b]; for n >= 3 every index below n-2 is  *)
(* the earlier member of exactly two of them, every submission takes part  *)
(* in at least two, and there are 2n-3 of them, never more than 2n.        *)

C4_PairsEmitted ==
    LET pw == PairwiseOf(egf)
        want == ClaimPairSeq(N)
    IN  /\ Len(pw) <= Len(want)
        /\ \A k \in 1..Len(pw) :
             /\ pw[k].submission_a = submissions[want[k][1] + 1].id
             /\ pw[k].submission_b = submissions[want[k][2] + 1].id
        /\ Len(pw) <= 2 * N
        /\ PairwiseOver =>
             /\ Len(pw) = Len(want)
             /\ N >= 3 =>
                  /\ Len(pw) = 2 * N - 3
                  /\ \A a \in 0..(N - 3) :
                       Cardinality({k \in 1..Len(pw) :
                           pw[k].submission_a = submissions[a + 1].id}) = 2
                  /\ \A a \in 0..(N - 1) :
                       Cardinality({k \in 1..Len(pw) :
                           \/ pw[k].submission_a = submissions[a + 1].id
                           \/ pw[k].submission_b = submissions[a + 1].id}) >= 2

\* a run over four submissions is over: five comparisons, none between the
\* first and the fourth submission, which are three positions apart
C4_Witness ==
    /\ pc = "done"
    /\ N = 4
    /\ Len(PairwiseOf(egf)) = 5
    /\ Len(PairwiseOf(egf)) < Cardinality({q \in (0..3) \X (0..3) : q[1] < q[2]})
    /\ \A k \in 1..Len(PairwiseOf(egf)) :
         ~(/\ PairwiseOf(egf)[k].submission_a = submissions[1].id
           /\ PairwiseOf(egf)[k].submission_b = submissions[4].id)

(* C5: the true winner of a pair is A when g_a > g_b, B when g_a < g_b,    *)
(* either one on a tie; the observed winner is the true winner if and only *)
(* if the accuracy draw r is below the accuracy target, otherwise the      *)
(* other side; with accuracy 1 the higher-graded submission always wins a  *)
(* non-tied pair, with accuracy 0 the lower-graded one.                    *)

Other(w) == IF w = "a" THEN "b" ELSE "a"

C5_WinnerFollowsAccuracyDraw ==
    locals.stage = "compare" =>
        LET ga == submissions[locals.i + 1].grade
            gb == submissions[locals.j + 1].grade
            cw == locals.correct_winner
            w  == egf.comparisons[comparison_count].winner
            higher == IF ga > gb THEN "a" ELSE "b"
        IN  /\ cw \in {"a", "b"}
            /\ ga > gb => cw = "a"
            /\ ga < gb => cw = "b"
            /\ locals.r \in 0..999
            /\ w \in {"a", "b"}
            /\ (w = cw) <=> (locals.r < accuracy)
            /\ ~(locals.r < accuracy) => w = Other(cw)
            /\ (accuracy = 1000 /\ ga # gb) => w = higher
            /\ (accuracy = 0 /\ ga # gb) => w = Other(higher)

\* the accuracy draw equals the accuracy target, and the winner is flipped
C5_Witness ==
    /\ locals.stage = "compare"
    /\ accuracy = 800
    /\ locals.r = 800
    /\ submissions[locals.i + 1].grade > submissions[locals.j + 1].grade
    /\ egf.comparisons[comparison_count].winner = "b"

(* C6: a call with an accuracy target outside [0, 1] adds no grade result, *)
(* comparison or call record and never saves.                              *)

C6_InvalidAccuracyRejected ==
    (accuracy < 0 \/ accuracy > 1000) =>
        /\ egf.calls = <<>>
        /\ egf.grades = <<>>
        /\ egf.comparisons = <<>>
        /\ saved = <<>>

(* C7: grade results come first, pairwise comparisons second, anchor       *)
(* comparisons last, without interleaving; there is one call record per    *)
(* result, added before the result that lists it; every result lists       *)
(* exactly one call id and no call id is listed by two results.            *)

StageOf(entry) ==
    IF entry.kind = "grade" THEN 1
    ELSE IF entry.kind = "comparison"
         THEN (IF entry.id[1] = "comp_" THEN 2 ELSE 3)
    ELSE IF entry.id[1] = "grade_call_" THEN 1
    ELSE IF entry.id[1] = "comp_call_" THEN 2
    ELSE 3

C7_StagesAndCallRecords ==
    LET L == egf.log
        results == {k \in 1..Len(L) : L[k].kind # "call"}
        callsAt == {k \in 1..Len(L) : L[k].kind = "call"}
    IN  /\ Len(L) = Len(egf.calls) + Len(egf.grades) + Len(egf.comparisons)
        /\ Cardinality(callsAt) = Len(egf.calls)
        /\ \A k \in 1..(Len(L) - 1) : StageOf(L[k]) <= StageOf(L[k + 1])
        /\ (\E k \in 1..Len(L) : StageOf(L[k]) >= 2) => Len(egf.grades) = N
        /\ (\E k \in 1..Len(L) : StageOf(L[k]) = 3) =>
               Len(PairwiseOf(egf)) = Cardinality(ClaimPairSet(N))
        /\ Len(egf.calls) = Len(egf.grades) + Len(egf.comparisons)
        /\ \A b \in results :
             /\ Len(L[b].call_ids) = 1
             /\ \E a \in callsAt : a < b /\ L[a].id = L[b].call_ids[1]
        /\ Cardinality({L[b].call_ids[1] : b \in results}) = Cardinality(results)
        /\ Cardinality({L[a].id : a \in callsAt}) = Cardinality(callsAt)

\* a complete run: the three stages have all added results
C7_Witness ==
    /\ pc = "done"
    /\ Len(egf.grades) >= 3
    /\ Len(PairwiseOf(egf)) >= 3
    /\ Len(AnchorsOf(egf)) = 3

(* C9: the random module is seeded once, before any draw; then one noise   *)
(* draw per submission in source order; then for each pair in increasing   *)
(* order a tie-break draw exactly when the two grades are equal, the       *)
(* accuracy draw and the confidence draw; the anchor stage draws nothing.  *)
(* There are n + 2P + T draws for n submissions, P pairs, T tied pairs.    *)

TiedPairs == {q \in ClaimPairSet(N) : IsTie(q)}

C9_DrawOrder ==
    pc # "start" =>
        /\ IsPrefix(draws, ClaimDraws)
        /\ rng.pos = Len(draws) - 1
        /\ rng.seed = seed
        /\ Len(tape[seed]) = rng.pos
        /\ pc = "grades" => draws = <<"seed">> \o [k \in 1..i |-> "randint"]
        /\ pc = "compare" =>
             /\ Len(draws) >= 1 + N + 2 * comparison_count
             /\ Len(draws) <= 1 + N + 3 * comparison_count
        /\ PairwiseOver =>
             /\ draws = ClaimDraws
             /\ rng.pos = N + 2 * Cardinality(ClaimPairSet(N))
                            + Cardinality(TiedPairs)

\* a complete run with accuracy target 0, a tied pair and an untied one
C9_Witness ==
    /\ pc = "done"
    /\ accuracy = 0
    /\ TiedPairs # {}
    /\ TiedPairs # ClaimPairSet(N)
    /\ Len(draws) = 1 + N + 2 * Cardinality(ClaimPairSet(N)) + Cardinality(TiedPairs)

(* C10: the artifact is saved at most once, and only after all n grade     *)
(* results, all pairwise comparisons and exactly 3 anchor comparisons, one *)
(* for each of submissions[0..2] with winner "a" and confidence 0.85; a    *)
(* run that fails saves nothing; with fewer than 3 submissions the anchor  *)
(* stage fails after the grade and pairwise stages and nothing is saved.   *)

Complete(e) ==
    /\ Len(e.grades) = N
    /\ Len(PairwiseOf(e)) = Cardinality(ClaimPairSet(N))
    /\ Len(AnchorsOf(e)) = 3
    /\ \A k \in 1..3 :
         /\ AnchorsOf(e)[k].submission_a = submissions[k].id
         /\ AnchorsOf(e)[k].submission_b = "external_anchor_exemplar"
         /\ AnchorsOf(e)[k].winner = "a"
         /\ AnchorsOf(e)[k].confidence = 850

C10_SavedOnlyWhenComplete ==
    /\ Len(saved) <= 1
    /\ Len(saved) = 1 <=> pc = "done"
    /\ \A k \in 1..Len(saved) : saved[k] = egf /\ N >= 3 /\ Complete(saved[k])
    /\ pc = "save" => Complete(egf)
    /\ pc = "failed" =>
         /\ saved = <<>>
         /\ N < 3
         /\ Len(egf.grades) = N
         /\ Len(PairwiseOf(egf)) = Cardinality(ClaimPairSet(N))
         /\ Len(AnchorsOf(egf)) = N
    /\ N < 3 => pc \notin {"save", "done"} /\ saved = <<>>
    /\ (N < 3 /\ pc = "anchors" /\ i = N) => ENABLED AnchorIndexError /\ ~ENABLED AnchorStep

\* a run over two submissions has aborted in the anchor stage
C10_Witness ==
    /\ pc = "failed"
    /\ N = 2
    /\ Len(egf.grades) = 2
    /\ Len(AnchorsOf(egf)) = 2
    /\ saved = <<>>

(* C2: two runs with the same submissions, seed and accuracy produce the   *)
(* same grade results and the same comparisons, field for field,           *)
(* timestamps included, whenever the two runs start.                       *)

C2_RunsIdentical ==
    Len(saved) >= 2 =>
        /\ saved[1].grades = saved[2].grades
        /\ saved[1].comparisons = saved[2].comparisons

(* C3: every anchor comparison has a source submission as submission_a and *)
(* a submission_b absent from the source set; every other comparison has   *)
(* both participants in the source set.                                    *)

C3_AnchorsAreExternal ==
    \A k \in 1..Len(egf.comparisons) :
        LET c == egf.comparisons[k]
        IN  IF IsAnchorComparison(c)
            THEN c.submission_a \in SourceIds /\ c.submission_b \notin SourceIds
            ELSE c.submission_a \in SourceIds /\ c.submission_b \in SourceIds

====
